---- MODULE Spec2Model ----
(***************************************************************************)
(* Model of streamlit_app.py: the outbreak dashboard script.               *)
(*                                                                         *)
(* One script run is: load_data() (lines 9-49), the empty-data guard       *)
(* (59-61), the sidebar widgets (68-98), the filter (111), the risk        *)
(* scores (116-126), the phase table (129-143) and the rendering           *)
(* (147-205).  A widget interaction reruns the script from the top with    *)
(* the cached result of load_data.                                         *)
(*                                                                         *)
(* Dates are integers YYYYMMDD (their integer order is the calendar        *)
(* order).  Scores are exact rationals [n, d] in lowest terms; the code    *)
(* computes them in binary floating point, which is monotone, so range     *)
(* and ordering statements carry over.                                     *)
(*                                                                         *)
(* The widget library is outside the repository.  A widget is modelled by  *)
(* its documented contract only: on the first run it returns the value /   *)
(* default it was given, on later runs the user's selection from the       *)
(* domain it was given (or the unchanged previous value).                  *)
(***************************************************************************)
EXTENDS Integers, Sequences, FiniteSets

VARIABLES
    pc,               \* position of the script run
    i,                \* load_data: number of entries of `files` already tried
    all_data,         \* load_data: the frames read so far (line 21)
    warned,           \* load_data: files reported missing with st.error (line 28)
    data,             \* the loaded Dataset (local of load_data, then line 57)
    banner,           \* the no-data st.error of line 60 has been shown
    session,          \* widget state kept across reruns: <<>> or <<[toggle, slider, multi]>>
    agent_b_enabled,  \* line 68
    sim_date,         \* line 82
    continents,       \* line 93
    filtered_data,    \* line 111
    asia_cases,       \* line 116
    total_cases,      \* line 117
    time_factor,      \* line 118
    risk_score_a,     \* line 121
    llm_context_bonus,\* line 125
    risk_score_b,     \* line 126
    llm_phase,        \* lines 130/135/140
    llm_score,        \* lines 131/136/141
    recommendation_a, \* lines 132/137/142
    recommendation_b, \* lines 133/138/143
    page              \* what sections 6-8 rendered

vars == <<pc, i, all_data, warned, data, banner, session, agent_b_enabled, sim_date,
          continents, filtered_data, asia_cases, total_cases, time_factor,
          risk_score_a, llm_context_bonus, risk_score_b, llm_phase, llm_score,
          recommendation_a, recommendation_b, page>>

loaderVars == <<i, all_data, warned>>
widgetVars == <<agent_b_enabled, sim_date, continents>>
scoreVars  == <<asia_cases, total_cases, time_factor, risk_score_a,
                llm_context_bonus, risk_score_b>>
phaseVars  == <<llm_phase, llm_score, recommendation_a, recommendation_b>>

----------------------------------------------------------------------------
(* Bounds of the model *)

\* at most this many rows are read over all files
MaxRows == 3

----------------------------------------------------------------------------
(* Program constants *)

\* len(files), lines 11-19
NumFiles == 7
\* the year time_factor counts from, line 118
BaseYear == 2019
\* the divisor of time_factor, line 118
YearSpan == 4
\* the saturation value of both scores, lines 121 and 126
ScoreCap == 99
\* datetime.datetime(2023, 9, 30), line 80
default_sim_date == 20230930
\* pandas NaT: what to_datetime(errors='coerce') gives an unparseable date, line 38
NaT == 0
\* a missing (NaN) Lat / Long cell, dropped by line 41
NaN == 999

Asia   == "Asia"      \* '아시아'
Europe == "Europe"    \* '유럽'
Africa == "Africa"
NoRegion == "NaN"     \* a missing '지역' cell

\* default=['아시아', '유럽'], line 96
default_continents == {Asia, Europe}

----------------------------------------------------------------------------
(* Rational arithmetic for the scores *)

Abs(x) == IF x < 0 THEN -x ELSE x

RECURSIVE GCD(_, _)
GCD(a, b) == IF b = 0 THEN a ELSE GCD(b, a % b)

\* n/d in lowest terms, d > 0
Rat(n, d) ==
    LET g == GCD(Abs(n), Abs(d))
        s == IF d < 0 THEN -1 ELSE 1
    IN  [n |-> (s * n) \div g, d |-> (s * d) \div g]

RAdd(a, b) == Rat(a.n * b.d + b.n * a.d, a.d * b.d)
RMul(a, b) == Rat(a.n * b.n, a.d * b.d)
RLe(a, b)  == a.n * b.d <= b.n * a.d
RLt(a, b)  == a.n * b.d < b.n * a.d
RMin(a, b) == IF RLe(a, b) THEN a ELSE b
RInt(k)    == Rat(k, 1)

----------------------------------------------------------------------------
(* Dates *)

Year(d)  == d \div 10000
Month(d) == (d \div 100) % 100
Day(d)   == d % 100

\* what pd.to_datetime can parse as a date
IsDate(x) == x > 0 /\ Month(x) \in 1..12 /\ Day(x) \in 1..31

\* pd.to_datetime(..., errors='coerce'), line 38
ToDatetime(x) == IF IsDate(x) THEN x ELSE NaT

\* .dt.to_period('M'), line 47: the year-month bucket
ToPeriodM(d) == d \div 100

\* occurrence dates that appear in the input files
RecDates == {20190315, 20221107, 20250620}
\* positions the date slider can be dragged to
SliderDates == RecDates \cup {20201001, 20230930, 20240101}

Regions == {Asia, Europe, Africa}

----------------------------------------------------------------------------
(* Input rows *)

Row(dt, lat, lon, reg) == [date |-> dt, Lat |-> lat, Long |-> lon, region |-> reg]

ValidRows  == {Row(dt, 37, 127, reg) : dt \in RecDates, reg \in Regions}
DefectRows == { Row(20231345, 37, 127, Asia),     \* unparseable date (month 13)
                Row(20190315, NaN, 127, Asia),    \* missing latitude
                Row(20190315, 37, NaN, Asia),     \* missing longitude
                Row(20190315, 37, 127, NoRegion), \* missing region
                Row(20190315, 0, 127, Asia),      \* latitude 0
                Row(20190315, 37, 0, Europe) }    \* longitude 0
RawRows == ValidRows \cup DefectRows

----------------------------------------------------------------------------
(* load_data, lines 9-49 *)

\* pd.concat(all_data, ignore_index=True), line 34
RECURSIVE Concat(_)
Concat(frames) ==
    IF frames = <<>> THEN <<>> ELSE Head(frames) \o Concat(Tail(frames))

\* line 38: the date column coerced to datetime, unparseable cells become NaT
CoerceDates(rows) ==
    [k \in 1..Len(rows) |-> [rows[k] EXCEPT !.date = ToDatetime(rows[k].date)]]

\* line 41: dropna(subset=[date, Lat, Long, region])
NotNa(r) == r.date # NaT /\ r.Lat # NaN /\ r.Long # NaN /\ r.region # NoRegion
DropNa(rows) == SelectSeq(rows, NotNa)

\* mutant of NonZero: the longitude test forgotten
NonZero_LatOnly(r) == r.Lat # 0

\* line 44: data[(data['Lat'] != 0) & (data['Long'] != 0)]
NonZero(r) == r.Lat # 0 /\ r.Long # 0
DropZero(rows) == SelectSeq(rows, NonZero)

\* line 47: the month_year column
AddMonthYear(rows) ==
    [k \in 1..Len(rows) |->
        [date |-> rows[k].date, Lat |-> rows[k].Lat, Long |-> rows[k].Long,
         region |-> rows[k].region, month_year |-> ToPeriodM(rows[k].date)]]

IsSortedByDate(s) == \A k \in 1..(Len(s) - 1) : s[k].date <= s[k + 1].date

Perms(n) == {f \in [1..n -> 1..n] : \A a, b \in 1..n : a # b => f[a] # f[b]}

\* line 48: sort_values on the date column.  The default sort is not stable:
\* rows of equal date may come out in any order.
SortValues(rows) ==
    {s \in {[k \in 1..Len(rows) |-> rows[f[k]]] : f \in Perms(Len(rows))} :
        IsSortedByDate(s)}

\* lines 34-48: every frame load_data can return for the frames read
Preprocess(frames) == SortValues(AddMonthYear(DropZero(DropNa(CoerceDates(Concat(frames))))))

\* lines 23-25: the file is there and parses; its frame is appended
ReadFrame ==
    /\ pc = "read"
    /\ i < NumFiles
    /\ Len(all_data) < MaxRows
    /\ \E r \in RawRows : all_data' = Append(all_data, <<r>>)
    /\ i' = i + 1
    /\ UNCHANGED <<pc, warned, data, banner, session, widgetVars, filtered_data,
                   scoreVars, phaseVars, page>>

\* lines 26-29: FileNotFoundError is caught, reported, and the loop goes on
ReadMissing ==
    /\ pc = "read"
    /\ i < NumFiles
    /\ warned' = warned + 1
    /\ i' = i + 1
    /\ UNCHANGED <<pc, all_data, data, banner, session, widgetVars, filtered_data,
                   scoreVars, phaseVars, page>>

\* line 24: pd.read_csv raises something else than FileNotFoundError (the file
\* is there but cannot be opened or parsed); nothing catches it
ReadUnreadable ==
    /\ pc = "read"
    /\ i < NumFiles
    /\ pc' = "aborted"
    /\ UNCHANGED <<i, all_data, warned, data, banner, session, widgetVars,
                   filtered_data, scoreVars, phaseVars, page>>

\* lines 31-48: after the loop
PreprocessData ==
    /\ pc = "read"
    /\ i = NumFiles
    /\ IF all_data = <<>>
         THEN data' = <<>>
         ELSE data' \in Preprocess(all_data)
    /\ pc' = "return"
    /\ UNCHANGED <<i, all_data, warned, banner, session, widgetVars, filtered_data,
                   scoreVars, phaseVars, page>>

\* lines 32 / 49 and 57: load_data returns; its locals are gone
ReturnData ==
    /\ pc = "return"
    /\ pc' = "check"
    /\ i' = 0
    /\ all_data' = <<>>
    /\ UNCHANGED <<warned, data, banner, session, widgetVars, filtered_data,
                   scoreVars, phaseVars, page>>

----------------------------------------------------------------------------
(* The dashboard script, lines 57-205 *)

SetMin(S) == CHOOSE x \in S : \A y \in S : x <= y
SetMax(S) == CHOOSE x \in S : \A y \in S : y <= x

DateColumn(rows) == {rows[k].date : k \in 1..Len(rows)}

\* data['발생일'].min() / .max(), lines 84-85 (NaT on an empty column)
DataMin(rows) == IF rows = <<>> THEN NaT ELSE SetMin(DateColumn(rows))
DataMax(rows) == IF rows = <<>> THEN NaT ELSE SetMax(DateColumn(rows))

\* the positions between min_value and max_value of the slider, lines 84-85
SliderRange(rows) == {d \in SliderDates : DataMin(rows) <= d /\ d <= DataMax(rows)}

\* data['지역'].unique(), line 95
RegionOptions(rows) == {rows[k].region : k \in 1..Len(rows)}

\* the widget values of the first run: value=True (70), value=default_sim_date (86),
\* default=['아시아', '유럽'] (96)
DefaultWidgets ==
    [toggle |-> TRUE, slider |-> default_sim_date, multi |-> default_continents]

\* mutant of IsEmpty: the guard never sees an empty Dataset
IsEmpty_Never(rows) == FALSE

\* data.empty, line 59
IsEmpty(rows) == Len(rows) = 0

\* lines 59-61: no data: report and st.stop(); otherwise go on to the sidebar
CheckEmpty ==
    /\ pc = "check"
    /\ IF IsEmpty(data)
         THEN /\ banner' = TRUE
              /\ pc' = "stopped"
         ELSE /\ banner' = banner
              /\ pc' = "sidebar"
    /\ UNCHANGED <<loaderVars, data, session, widgetVars, filtered_data, scoreVars,
                   phaseVars, page>>

\* lines 63-100: the three widgets return the session's values, which on the
\* first run are the defaults they were given
Sidebar ==
    /\ pc = "sidebar"
    /\ LET w == IF session = <<>> THEN DefaultWidgets ELSE session[1]
       IN  /\ agent_b_enabled' = w.toggle
           /\ sim_date' = w.slider
           /\ continents' = w.multi
           /\ session' = <<w>>
    /\ pc' = "filter"
    /\ UNCHANGED <<loaderVars, data, banner, filtered_data, scoreVars, phaseVars, page>>

\* mutant of FilterData: the cutoff day itself excluded
FilterData_Strict(rows, cutoff, regionSet) ==
    LET keep(r) == r.date < cutoff /\ r.region \in regionSet
    IN  SelectSeq(rows, keep)

\* line 111: data[(date <= sim_date) & region.isin(continents)]
FilterData(rows, cutoff, regionSet) ==
    LET keep(r) == r.date <= cutoff /\ r.region \in regionSet
    IN  SelectSeq(rows, keep)

Filter ==
    /\ pc = "filter"
    /\ filtered_data' = FilterData(data, sim_date, continents)
    /\ pc' = "score"
    /\ UNCHANGED <<loaderVars, data, banner, session, widgetVars, scoreVars,
                   phaseVars, page>>

\* line 116: len(filtered_data[filtered_data['지역'] == '아시아'])
AsiaCases(rows) == Cardinality({k \in 1..Len(rows) : rows[k].region = Asia})

\* line 117
TotalCases(rows) == Len(rows)

\* line 118: (sim_date.year - 2019) / 4
TimeFactor(d) == Rat(Year(d) - BaseYear, YearSpan)

\* mutant of RiskScoreA: the saturation at 99 forgotten
RiskScoreA_NoCap(asia, total, tf) ==
    RAdd(RMul(Rat(asia, total + 1), RInt(100)), RMul(tf, RInt(20)))

\* line 121: min(99, (asia_cases / (total_cases + 1)) * 100 + time_factor * 20)
RiskScoreA(asia, total, tf) ==
    RMin(RInt(ScoreCap),
         RAdd(RMul(Rat(asia, total + 1), RInt(100)), RMul(tf, RInt(20))))

\* mutant of LlmContextBonus: the bonus subtracted instead of added
LlmContextBonus_Negated(asia, tf, enabled) ==
    IF enabled THEN RMul(RMul(RInt(asia), tf), Rat(-3, 2)) ELSE RInt(0)

\* mutant of LlmContextBonus: the toggle ignored
LlmContextBonus_Always(asia, tf, enabled) ==
    RMul(RMul(RInt(asia), tf), Rat(3, 2))

\* line 125: (asia_cases * time_factor * 1.5) if agent_b_enabled else 0
LlmContextBonus(asia, tf, enabled) ==
    IF enabled THEN RMul(RMul(RInt(asia), tf), Rat(3, 2)) ELSE RInt(0)

\* line 126: min(99, risk_score_a + llm_context_bonus)
RiskScoreB(a, bonus) == RMin(RInt(ScoreCap), RAdd(a, bonus))

\* lines 116-126
Score ==
    /\ pc = "score"
    /\ LET asia  == AsiaCases(filtered_data)
           total == TotalCases(filtered_data)
           tf    == TimeFactor(sim_date)
           a     == RiskScoreA(asia, total, tf)
           bonus == LlmContextBonus(asia, tf, agent_b_enabled)
       IN  /\ asia_cases' = asia
           /\ total_cases' = total
           /\ time_factor' = tf
           /\ risk_score_a' = a
           /\ llm_context_bonus' = bonus
           /\ risk_score_b' = RiskScoreB(a, bonus)
    /\ pc' = "phase"
    /\ UNCHANGED <<loaderVars, data, banner, session, widgetVars, filtered_data,
                   phaseVars, page>>

\* mutant of LlmPhase: the thresholds inclusive
LlmPhase_Inclusive(score) ==
    IF RLe(RInt(80), score)
    THEN [phase |-> "Diffusion", score |-> "9.5",
          rec_a |-> "spread across Asia", rec_b |-> "urgent alert 9.5/10"]
    ELSE IF RLe(RInt(50), score)
    THEN [phase |-> "Early", score |-> "7.0",
          rec_a |-> "spread in south Asia", rec_b |-> "caution alert 7.0/10"]
    ELSE [phase |-> "Latent", score |-> "4.0",
          rec_a |-> "mostly Europe/Africa", rec_b |-> "attention 4.0/10"]

\* lines 129-143: the phase table, evaluated top-down
LlmPhase(score) ==
    IF RLt(RInt(80), score)
    THEN [phase |-> "Diffusion", score |-> "9.5",
          rec_a |-> "spread across Asia", rec_b |-> "urgent alert 9.5/10"]
    ELSE IF RLt(RInt(50), score)
    THEN [phase |-> "Early", score |-> "7.0",
          rec_a |-> "spread in south Asia", rec_b |-> "caution alert 7.0/10"]
    ELSE [phase |-> "Latent", score |-> "4.0",
          rec_a |-> "mostly Europe/Africa", rec_b |-> "attention 4.0/10"]

Phase ==
    /\ pc = "phase"
    /\ LET t == LlmPhase(risk_score_b)
       IN  /\ llm_phase' = t.phase
           /\ llm_score' = t.score
           /\ recommendation_a' = t.rec_a
           /\ recommendation_b' = t.rec_b
    /\ pc' = "render"
    /\ UNCHANGED <<loaderVars, data, banner, session, widgetVars, filtered_data,
                   scoreVars, page>>

\* line 195: filtered_data.groupby('month_year').size()
MonthlyCounts(rows) ==
    [m \in {rows[k].month_year : k \in 1..Len(rows)} |->
        Cardinality({k \in 1..Len(rows) : rows[k].month_year = m})]

\* lines 147-205: the briefing columns, the map, the chart and the table
Render ==
    /\ pc = "render"
    /\ page' = <<[metric  |-> IF agent_b_enabled THEN risk_score_b ELSE risk_score_a,
                  delta   |-> IF agent_b_enabled
                              THEN <<RAdd(risk_score_b, RMul(RInt(-1), risk_score_a))>>
                              ELSE <<>>,
                  xai     |-> IF agent_b_enabled THEN <<llm_phase, llm_score>> ELSE <<>>,
                  action  |-> IF agent_b_enabled THEN recommendation_b
                                                 ELSE recommendation_a,
                  no_map  |-> IsEmpty(filtered_data),
                  monthly |-> MonthlyCounts(filtered_data),
                  rows    |-> Len(filtered_data)]>>
    /\ pc' = "idle"
    /\ UNCHANGED <<loaderVars, data, banner, session, widgetVars, filtered_data,
                   scoreVars, phaseVars>>

\* The user changes a widget: the script reruns from the top in a fresh
\* namespace; load_data (line 8, st.cache_data) hands back the cached Dataset.
Interact ==
    /\ pc = "idle"
    /\ \E t \in BOOLEAN,
          d \in SliderRange(data) \cup {session[1].slider},
          c \in (SUBSET RegionOptions(data)) \cup {session[1].multi} :
            /\ [toggle |-> t, slider |-> d, multi |-> c] # session[1]
            /\ session' = <<[toggle |-> t, slider |-> d, multi |-> c]>>
    /\ pc' = "check"
    /\ agent_b_enabled' = FALSE
    /\ sim_date' = NaT
    /\ continents' = {}
    /\ filtered_data' = <<>>
    /\ asia_cases' = 0
    /\ total_cases' = 0
    /\ time_factor' = RInt(0)
    /\ risk_score_a' = RInt(0)
    /\ llm_context_bonus' = RInt(0)
    /\ risk_score_b' = RInt(0)
    /\ llm_phase' = ""
    /\ llm_score' = ""
    /\ recommendation_a' = ""
    /\ recommendation_b' = ""
    /\ page' = <<>>
    /\ UNCHANGED <<loaderVars, data, banner>>

----------------------------------------------------------------------------
(* The specification *)

Init ==
    /\ pc = "read"
    /\ i = 0
    /\ all_data = <<>>
    /\ warned = 0
    /\ data = <<>>
    /\ banner = FALSE
    /\ session = <<>>
    /\ agent_b_enabled = FALSE
    /\ sim_date = NaT
    /\ continents = {}
    /\ filtered_data = <<>>
    /\ asia_cases = 0
    /\ total_cases = 0
    /\ time_factor = RInt(0)
    /\ risk_score_a = RInt(0)
    /\ llm_context_bonus = RInt(0)
    /\ risk_score_b = RInt(0)
    /\ llm_phase = ""
    /\ llm_score = ""
    /\ recommendation_a = ""
    /\ recommendation_b = ""
    /\ page = <<>>

Next ==
    \/ ReadFrame
    \/ ReadMissing
    \/ ReadUnreadable
    \/ PreprocessData
    \/ ReturnData
    \/ CheckEmpty
    \/ Sidebar
    \/ Filter
    \/ Score
    \/ Phase
    \/ Render
    \/ Interact

Spec == Init /\ [][Next]_vars

----------------------------------------------------------------------------
(* The scenario of 10 records: 6 in Asia, 4 in Europe *)

\* region layouts of the ten records
ScenarioRegions ==
    { [k \in 1..10 |-> IF k <= 6 THEN Asia ELSE Europe],
      [k \in 1..10 |-> IF k <= 4 THEN Europe ELSE Asia],
      [k \in 1..10 |-> IF k \in {1, 3, 5, 7, 8, 10} THEN Asia ELSE Europe] }

\* Datasets load_data can return for ten valid rows: the first j records on one
\* day, the others on a later (or the same) day
ScenarioData ==
    { [k \in 1..10 |->
          [date |-> IF k <= j THEN d1 ELSE d2, Lat |-> 37, Long |-> 127,
           region |-> reg[k], month_year |-> ToPeriodM(IF k <= j THEN d1 ELSE d2)]] :
      j \in 0..9, d1 \in RecDates, d2 \in RecDates, reg \in ScenarioRegions }

InitScenario ==
    /\ pc = "check"
    /\ i = 0
    /\ all_data = <<>>
    /\ warned = 0
    /\ data \in {s \in ScenarioData : IsSortedByDate(s)}
    /\ banner = FALSE
    /\ session = <<>>
    /\ agent_b_enabled = FALSE
    /\ sim_date = NaT
    /\ continents = {}
    /\ filtered_data = <<>>
    /\ asia_cases = 0
    /\ total_cases = 0
    /\ time_factor = RInt(0)
    /\ risk_score_a = RInt(0)
    /\ llm_context_bonus = RInt(0)
    /\ risk_score_b = RInt(0)
    /\ llm_phase = ""
    /\ llm_score = ""
    /\ recommendation_a = ""
    /\ recommendation_b = ""
    /\ page = <<>>

NextScenario ==
    \/ CheckEmpty
    \/ Sidebar
    \/ Filter
    \/ Score
    \/ Phase
    \/ Render
    \/ Interact

SpecScenario == InitScenario /\ [][NextScenario]_vars

----------------------------------------------------------------------------
(* Claims *)

\* positions at which lines 116-126 have run
Scored == {"phase", "render", "idle"}
\* positions at which lines 129-143 have run
Phased == {"render", "idle"}
\* positions at which line 111 has run
Filtered == {"score", "phase", "render", "idle"}
\* positions at which the widgets have been read
AfterSidebar == {"filter", "score", "phase", "render", "idle"}

InDataRange(d) == DataMin(data) <= d /\ d <= DataMax(data)

\* C1: for every simulated date between the Dataset's minimum and maximum date,
\* the time_factor the scorer used lies in [0.1, 1.0].
C1_TimeFactorInUnitRange ==
    (pc \in Scored /\ InDataRange(sim_date))
        => (RLe(Rat(1, 10), time_factor) /\ RLe(time_factor, RInt(1)))

C3_Scenario ==
    (/\ pc \in Phased
     /\ Len(data) = 10
     /\ sim_date = DataMax(data)
     /\ continents = {Asia, Europe})
        => /\ total_cases = 10
           /\ asia_cases = 6
           /\ time_factor = RInt(1)
           /\ risk_score_a = Rat(820, 11)
           /\ ~agent_b_enabled => (risk_score_b = Rat(820, 11) /\ llm_phase = "Early")
           /\ agent_b_enabled =>
                 /\ llm_context_bonus = RInt(9)
                 /\ risk_score_b = Rat(919, 11)
                 /\ llm_phase = "Diffusion"

C5_DisabledEqualsBaseline ==
    (pc \in Scored /\ ~agent_b_enabled)
        => (llm_context_bonus = RInt(0) /\ risk_score_b = risk_score_a)

\* C5 witness: disabled in a run where an enabled toggle would have added a bonus
C5_Witness ==
    /\ pc = "phase"
    /\ ~agent_b_enabled
    /\ asia_cases > 0
    /\ RLt(RInt(0), time_factor)
    /\ RLt(risk_score_a, RInt(99))

\* C6: once the phase is derived, risk_score_b > 80 gives Diffusion / 9.5,
\* otherwise risk_score_b > 50 gives Early / 7.0, otherwise Latent / 4.0, each
\* with its own pair of recommendations: exactly one row of the table.
C6_PhaseTable ==
    pc \in Phased =>
        /\ RLt(RInt(80), risk_score_b) =>
              /\ llm_phase = "Diffusion" /\ llm_score = "9.5"
              /\ recommendation_a = "spread across Asia"
              /\ recommendation_b = "urgent alert 9.5/10"
        /\ (RLe(risk_score_b, RInt(80)) /\ RLt(RInt(50), risk_score_b)) =>
              /\ llm_phase = "Early" /\ llm_score = "7.0"
              /\ recommendation_a = "spread in south Asia"
              /\ recommendation_b = "caution alert 7.0/10"
        /\ RLe(risk_score_b, RInt(50)) =>
              /\ llm_phase = "Latent" /\ llm_score = "4.0"
              /\ recommendation_a = "mostly Europe/Africa"
              /\ recommendation_b = "attention 4.0/10"
        /\ llm_phase \in {"Diffusion", "Early", "Latent"}

\* C6 witness: a score of exactly 50, on the Latent side of the threshold
C6_Witness ==
    /\ pc = "render"
    /\ risk_score_b = RInt(50)
    /\ llm_phase = "Latent"

\* s is t with some elements left out, the others in t's order
IsSubSeq(s, t) ==
    \E f \in [1..Len(s) -> 1..Len(t)] :
        /\ \A a, b \in 1..Len(s) : a < b => f[a] < f[b]
        /\ \A a \in 1..Len(s) : s[a] = t[f[a]]

\* C7: once filtered, filtered_data holds exactly the records of data with
\* date <= sim_date and region in continents, in data's order (ascending by
\* date); it is empty when continents is empty; filtering it again with the
\* same parameters changes nothing.
C7_FilterExact ==
    pc \in Filtered =>
        /\ IsSubSeq(filtered_data, data)
        /\ \A k \in 1..Len(filtered_data) :
              /\ filtered_data[k].date <= sim_date
              /\ filtered_data[k].region \in continents
        /\ Len(filtered_data) =
              Cardinality({k \in 1..Len(data) :
                  data[k].date <= sim_date /\ data[k].region \in continents})
        /\ IsSortedByDate(filtered_data)
        /\ continents = {} => filtered_data = <<>>
        /\ FilterData(filtered_data, sim_date, continents) = filtered_data

\* C7 witness: a record kept that is dated on the cutoff day itself, one dropped
\* for its date and one dropped for its region
C7_Witness ==
    /\ pc = "score"
    /\ \E k \in 1..Len(filtered_data) : filtered_data[k].date = sim_date
    /\ \E k \in 1..Len(data) : data[k].date > sim_date
    /\ \E k \in 1..Len(data) :
          data[k].date <= sim_date /\ data[k].region \notin continents

\* occurrences of x in s
Count(s, x) == Cardinality({k \in 1..Len(s) : s[k] = x})

\* the input columns of a loaded record
Columns(r) == Row(r.date, r.Lat, r.Long, r.region)

\* a raw row the specification keeps
Keeps(r) ==
    /\ IsDate(r.date)
    /\ r.Lat # NaN /\ r.Long # NaN /\ r.region # NoRegion
    /\ r.Lat # 0 /\ r.Long # 0

\* what load_data is to return for the frames in all_data
LoadedExactly ==
    LET raw  == Concat(all_data)
        kept == [k \in 1..Len(data) |-> Columns(data[k])]
    IN  /\ \A r \in RawRows :
              Count(kept, r) = IF Keeps(r) THEN Count(raw, r) ELSE 0
        /\ Len(kept) = Cardinality({k \in 1..Len(raw) : Keeps(raw[k])})
        /\ IsSortedByDate(data)
        /\ (\A k \in 1..Len(raw) : raw[k].Lat = 0 \/ raw[k].Long = 0) => data = <<>>

C9_HaltOnEmpty ==
    /\ [](pc \in (AfterSidebar \cup {"sidebar"}) => ~(data = <<>>))
    /\ [](pc = "stopped" =>
            (data = <<>> /\ banner /\ session = <<>> /\ page = <<>>))
    /\ [][/\ (pc = "check" /\ data = <<>>) => (pc' = "stopped" /\ banner')
          /\ (pc = "check" /\ data # <<>>) => pc' = "sidebar"
          /\ pc = "sidebar" => pc' = "filter"
          /\ pc = "filter" => pc' = "score"
          /\ pc = "stopped" => FALSE]_vars

\* C9 witness: a run stopped although a file was read (every row was dropped)
C9_Witness ==
    /\ pc = "stopped"
    /\ banner
    /\ warned < NumFiles

\* C10: in every pass over a non-empty Dataset, the first one included, the
\* sim_date handed to the filter and the scorer lies between the Dataset's
\* minimum and maximum date.
C10_SimDateWithinData ==
    pc \in AfterSidebar => InDataRange(sim_date)

====
